---- MODULE Spec2Model ----
(***************************************************************************)
(* Model of self_driving_car.py: the Car class (move, autonomous_drive,    *)
(* is_lane_safe, get_car_in_front, update_sensors_and_check_collision) and *)
(* the frame loop of main().                                               *)
(*                                                                         *)
(* Numbers are fixed-point hundredths: a position of 700 pixels is 70000,  *)
(* a speed of 4.0 pixels per frame is 400, a change_progress of 0.05 is 5. *)
(* The index of a car in `cars` is its identity (`car == self`); cars[1]   *)
(* is the player, as in all_cars = [player] followed by the NPC cars.      *)
(***************************************************************************)
EXTENDS Integers, Sequences, FiniteSets, TLC

VARIABLES cars, frame_count, ev, blocked_run

vars == <<cars, frame_count, ev, blocked_run>>

(***************************************************************************)
(* Bounds of the exploration.                                              *)
(***************************************************************************)
\* Number of frames explored in one episode.
MaxFrame == 800

\* Number of NPC cars created by reset_simulation (the program creates 12).
NumNpc == 5

(***************************************************************************)
(* Constants and configuration (lines 9-43), in hundredths.                *)
(***************************************************************************)
WIDTH == 100000

HEIGHT == 80000

ROAD_WIDTH == 45000

LANE_COUNT == 3

LANE_WIDTH == ROAD_WIDTH \div LANE_COUNT

ROAD_LEFT == (WIDTH - ROAD_WIDTH) \div 2

LANE_CENTERS == [i \in 0..(LANE_COUNT - 1) |-> ROAD_LEFT + LANE_WIDTH \div 2 + i * LANE_WIDTH]

CAR_WIDTH == 3000

CAR_HEIGHT == 5000

PLAYER_SPEED_MIN == 400

PLAYER_SPEED_MAX == 500

NPC_SPEED_MIN == 300

NPC_SPEED_MAX == 450

CHANGE_LANE_DISTANCE == 15000

\* A rear threat distance that reaches beyond the blind spot of 125 pixels.
REAR_THREAT_DISTANCE_past_blind_spot == 2 * 10000

REAR_THREAT_DISTANCE == 10000

\* self.min_lane_change_interval, in frames.
min_lane_change_interval == 60

\* One pixel: pygame.Rect keeps whole pixels.
PIXEL == 100

\* float('inf'), larger than every distance on the road.
INF == 1000000000

\* The player starts HEIGHT - 100 pixels down the screen.
PLAYER_START_OFFSET == 10000

\* change_progress += 0.05, and the change completes at 1.0.
PROGRESS_STEP == 5

PROGRESS_DONE == 100

\* The speed controller: tolerance 0.05, acceleration 0.02, deceleration 0.1.
SPEED_EPSILON == 5

ACCELERATION == 2

DECELERATION == 10

\* Braking margins below the front car's speed, and the stuck threshold.
GENTLE_BRAKE == 10

HARD_BRAKE == 100

STUCK_FRAMES == 300

Abs(n) == IF n < 0 THEN -n ELSE n

\* Conversion of a float to an int, as C and pygame.Rect do it: toward zero.
Trunc(n, unit) == IF n >= 0 THEN (n \div unit) * unit ELSE -(((-n) \div unit) * unit)

(***************************************************************************)
(* Car.__init__                                                            *)
(***************************************************************************)
Car(x, y, lane, speed, is_player) ==
    [x |-> x, y |-> y, lane |-> lane, speed |-> speed, is_player |-> is_player,
     target_speed |-> IF is_player THEN PLAYER_SPEED_MAX ELSE speed,
     changing_lane |-> FALSE, target_lane |-> lane, change_progress |-> 0,
     collided |-> FALSE, lane_decision |-> "Initializing...",
     last_lane_change_time |-> 0, stuck_timer |-> 0]

(***************************************************************************)
(* Car.get_car_in_front: the closest NPC car of `lane` with a smaller y    *)
(* than car s; car = 0 and dist = INF when there is none.  The loop keeps  *)
(* the first car of the list among equally close ones (dist < closest).    *)
(***************************************************************************)
get_car_in_front(all, s, lane) ==
    LET ahead == {i \in 1..Len(all) : /\ i # s
                                      /\ ~all[i].is_player
                                      /\ all[i].lane = lane
                                      /\ all[i].y < all[s].y}
        dist(i) == all[s].y - all[i].y
    IN  IF ahead = {}
        THEN [car |-> 0, dist |-> INF]
        ELSE LET c == CHOOSE i \in ahead :
                         \A j \in ahead : \/ dist(i) < dist(j)
                                          \/ (dist(i) = dist(j) /\ i <= j)
             IN  [car |-> c, dist |-> dist(c)]

\* is_lane_safe refusing a lane whose nearest car ahead is exactly
\* CHANGE_LANE_DISTANCE away.
is_lane_safe_gap_inclusive(all, s, lane) ==
    LET others == {i \in 1..Len(all) : i # s /\ ~all[i].is_player}
        blind_spot == \E i \in others :
                         /\ all[i].lane = lane
                         /\ 2 * Abs(all[s].y - all[i].y) < CAR_HEIGHT * 5
        front == get_car_in_front(all, s, lane)
        too_close_ahead == front.car # 0 /\ front.dist <= CHANGE_LANE_DISTANCE
        rear_threat == \E i \in others :
                          /\ all[i].lane = lane
                          /\ all[i].y > all[s].y
                          /\ all[i].y - all[s].y < REAR_THREAT_DISTANCE
                          /\ all[i].speed > all[s].speed
    IN  ~blind_spot /\ ~too_close_ahead /\ ~rear_threat

(***************************************************************************)
(* Car.is_lane_safe                                                        *)
(***************************************************************************)
is_lane_safe(all, s, lane) ==
    LET others == {i \in 1..Len(all) : i # s /\ ~all[i].is_player}
        blind_spot == \E i \in others :
                         /\ all[i].lane = lane
                         /\ 2 * Abs(all[s].y - all[i].y) < CAR_HEIGHT * 5
        front == get_car_in_front(all, s, lane)
        too_close_ahead == front.car # 0 /\ front.dist < CHANGE_LANE_DISTANCE
        rear_threat == \E i \in others :
                          /\ all[i].lane = lane
                          /\ all[i].y > all[s].y
                          /\ all[i].y - all[s].y < REAR_THREAT_DISTANCE
                          /\ all[i].speed > all[s].speed
    IN  ~blind_spot /\ ~too_close_ahead /\ ~rear_threat

\* A controller with the two steps exchanged: it brakes below the target
\* and accelerates above it.
speed_step_signs_exchanged(speed, target_speed) ==
    IF Abs(speed - target_speed) > SPEED_EPSILON
    THEN IF speed < target_speed THEN speed - DECELERATION ELSE speed + ACCELERATION
    ELSE target_speed

\* A controller that keeps stepping when the speed is exactly 0.05 away
\* from the target.
speed_step_tolerance_exclusive(speed, target_speed) ==
    IF Abs(speed - target_speed) >= SPEED_EPSILON
    THEN IF speed < target_speed THEN speed + ACCELERATION ELSE speed - DECELERATION
    ELSE target_speed

(***************************************************************************)
(* Car.autonomous_drive, lines 134-137: the speed controller.              *)
(***************************************************************************)
speed_step(speed, target_speed) ==
    IF Abs(speed - target_speed) > SPEED_EPSILON
    THEN IF speed < target_speed THEN speed + ACCELERATION ELSE speed - DECELERATION
    ELSE target_speed

\* A cooldown measured from the start of the episode instead of from the
\* last lane change.
is_on_cooldown_since_start(self, frame) ==
    frame < min_lane_change_interval

\* A cooldown that still holds on the 60th frame after the lane change.
is_on_cooldown_inclusive(self, frame) ==
    (frame - self.last_lane_change_time) <= min_lane_change_interval

\* Line 150: is_on_cooldown.
is_on_cooldown(self, frame) ==
    (frame - self.last_lane_change_time) < min_lane_change_interval

\* The "blocked" condition without its `not self.changing_lane`.
is_blocked_while_changing(self, front) ==
    front.car # 0 /\ front.dist < CHANGE_LANE_DISTANCE

\* Line 153: the condition of the "blocked" state; front is the result of
\* get_car_in_front for the car's own lane.
is_blocked(self, front) ==
    ~self.changing_lane /\ front.car # 0 /\ front.dist < CHANGE_LANE_DISTANCE

\* Lines 156-158: possible_lanes, in the order the code appends them.
possible_lanes(lane) ==
    (IF lane > 0 THEN <<lane - 1>> ELSE <<>>)
        \o (IF lane < LANE_COUNT - 1 THEN <<lane + 1>> ELSE <<>>)

\* safe_lanes without the filter through is_lane_safe.
safe_lanes_unfiltered(all, s) ==
    possible_lanes(all[s].lane)

\* Line 160: safe_lanes.
safe_lanes(all, s) ==
    SelectSeq(possible_lanes(all[s].lane), LAMBDA l : is_lane_safe(all, s, l))

\* A maximum that returns the last element of the list among those with
\* the largest key.
best_lane_last_maximal(all, s, safe) ==
    LET key(l) == get_car_in_front(all, s, l).dist
        k == CHOOSE j \in 1..Len(safe) :
                /\ \A m \in 1..Len(safe) : key(safe[m]) <= key(safe[j])
                /\ \A m \in (j + 1)..Len(safe) : key(safe[m]) < key(safe[j])
    IN  safe[k]

\* Line 164: max(safe_lanes, key = distance to the car in front), which
\* returns the first element of the list among those with the largest key.
best_lane(all, s, safe) ==
    LET key(l) == get_car_in_front(all, s, l).dist
        k == CHOOSE j \in 1..Len(safe) :
                /\ \A m \in 1..Len(safe) : key(safe[m]) <= key(safe[j])
                /\ \A m \in 1..(j - 1) : key(safe[m]) < key(safe[j])
    IN  safe[k]

\* Line 165: f"Changing to Lane {best_lane + 1}".
changing_label(lane) ==
    <<"Changing to Lane 1", "Changing to Lane 2", "Changing to Lane 3">>[lane + 1]

\* Braking down to the speed of the car ahead and no further.
brake_without_margin(self, front_speed) ==
    LET t == self.stuck_timer + 1
    IN  IF t > STUCK_FRAMES
        THEN [self EXCEPT !.stuck_timer = t,
                          !.lane_decision = "Stuck! Braking hard.",
                          !.target_speed = front_speed]
        ELSE [self EXCEPT !.stuck_timer = t,
                          !.lane_decision = "Slowing: No safe lane",
                          !.target_speed = front_speed]

\* Braking that turns hard on the 300th frame instead of after it.
brake_hard_at_limit(self, front_speed) ==
    LET t == self.stuck_timer + 1
    IN  IF t >= STUCK_FRAMES
        THEN [self EXCEPT !.stuck_timer = t,
                          !.lane_decision = "Stuck! Braking hard.",
                          !.target_speed = front_speed - HARD_BRAKE]
        ELSE [self EXCEPT !.stuck_timer = t,
                          !.lane_decision = "Slowing: No safe lane",
                          !.target_speed = front_speed - GENTLE_BRAKE]

\* Lines 173-180: blocked and unable to change lane, so brake.
brake(self, front_speed) ==
    LET t == self.stuck_timer + 1
    IN  IF t > STUCK_FRAMES
        THEN [self EXCEPT !.stuck_timer = t,
                          !.lane_decision = "Stuck! Braking hard.",
                          !.target_speed = front_speed - HARD_BRAKE]
        ELSE [self EXCEPT !.stuck_timer = t,
                          !.lane_decision = "Slowing: No safe lane",
                          !.target_speed = front_speed - GENTLE_BRAKE]

\* autonomous_drive with a "clear" state that leaves stuck_timer as it is.
autonomous_drive_clear_keeps_timer(all, s, frame) ==
    LET self1 == [all[s] EXCEPT !.speed = speed_step(all[s].speed, all[s].target_speed)]
        all1 == [all EXCEPT ![s] = self1]
        front == get_car_in_front(all1, s, self1.lane)
        safe == safe_lanes(all1, s)
    IN  IF self1.changing_lane /\ ~is_lane_safe(all1, s, self1.target_lane)
        THEN [car |-> [self1 EXCEPT !.lane_decision = "Target Unsafe! Aborting.",
                                    !.changing_lane = FALSE,
                                    !.stuck_timer = 0],
              path |-> "abort"]
        ELSE IF is_blocked(self1, front)
        THEN IF ~is_on_cooldown(self1, frame) /\ safe # <<>>
             THEN LET best == best_lane(all1, s, safe)
                  IN  [car |-> [self1 EXCEPT !.lane_decision = changing_label(best),
                                             !.changing_lane = TRUE,
                                             !.target_lane = best,
                                             !.target_speed = PLAYER_SPEED_MAX,
                                             !.stuck_timer = 0],
                       path |-> "initiate"]
             ELSE [car |-> brake(self1, all1[front.car].speed), path |-> "brake"]
        ELSE IF ~self1.changing_lane
        THEN [car |-> [self1 EXCEPT !.lane_decision = "Road clear",
                                    !.target_speed = PLAYER_SPEED_MAX],
              path |-> "clear"]
        ELSE [car |-> self1, path |-> "changing"]

\* autonomous_drive with an abort that stamps last_lane_change_time as a
\* completed lane change does.
autonomous_drive_abort_stamps(all, s, frame) ==
    LET self1 == [all[s] EXCEPT !.speed = speed_step(all[s].speed, all[s].target_speed)]
        all1 == [all EXCEPT ![s] = self1]
        front == get_car_in_front(all1, s, self1.lane)
        safe == safe_lanes(all1, s)
    IN  IF self1.changing_lane /\ ~is_lane_safe(all1, s, self1.target_lane)
        THEN [car |-> [self1 EXCEPT !.lane_decision = "Target Unsafe! Aborting.",
                                    !.changing_lane = FALSE,
                                    !.last_lane_change_time = frame,
                                    !.stuck_timer = 0],
              path |-> "abort"]
        ELSE IF is_blocked(self1, front)
        THEN IF ~is_on_cooldown(self1, frame) /\ safe # <<>>
             THEN LET best == best_lane(all1, s, safe)
                  IN  [car |-> [self1 EXCEPT !.lane_decision = changing_label(best),
                                             !.changing_lane = TRUE,
                                             !.target_lane = best,
                                             !.target_speed = PLAYER_SPEED_MAX,
                                             !.stuck_timer = 0],
                       path |-> "initiate"]
             ELSE [car |-> brake(self1, all1[front.car].speed), path |-> "brake"]
        ELSE IF ~self1.changing_lane
        THEN [car |-> [self1 EXCEPT !.lane_decision = "Road clear",
                                    !.target_speed = PLAYER_SPEED_MAX,
                                    !.stuck_timer = 0],
              path |-> "clear"]
        ELSE [car |-> self1, path |-> "changing"]

(***************************************************************************)
(* Car.autonomous_drive.  The result is the car after the call, and the    *)
(* path the call took: "abort" (return at line 147), "initiate" (return at *)
(* line 170), "brake" (lines 173-180), "clear" (lines 184-187), or         *)
(* "changing" (a lane change in progress that stays safe: no assignment).  *)
(***************************************************************************)
autonomous_drive(all, s, frame) ==
    LET self1 == [all[s] EXCEPT !.speed = speed_step(all[s].speed, all[s].target_speed)]
        all1 == [all EXCEPT ![s] = self1]
        front == get_car_in_front(all1, s, self1.lane)
        safe == safe_lanes(all1, s)
    IN  IF self1.changing_lane /\ ~is_lane_safe(all1, s, self1.target_lane)
        THEN [car |-> [self1 EXCEPT !.lane_decision = "Target Unsafe! Aborting.",
                                    !.changing_lane = FALSE,
                                    !.stuck_timer = 0],
              path |-> "abort"]
        ELSE IF is_blocked(self1, front)
        THEN IF ~is_on_cooldown(self1, frame) /\ safe # <<>>
             THEN LET best == best_lane(all1, s, safe)
                  IN  [car |-> [self1 EXCEPT !.lane_decision = changing_label(best),
                                             !.changing_lane = TRUE,
                                             !.target_lane = best,
                                             !.target_speed = PLAYER_SPEED_MAX,
                                             !.stuck_timer = 0],
                       path |-> "initiate"]
             ELSE [car |-> brake(self1, all1[front.car].speed), path |-> "brake"]
        ELSE IF ~self1.changing_lane
        THEN [car |-> [self1 EXCEPT !.lane_decision = "Road clear",
                                    !.target_speed = PLAYER_SPEED_MAX,
                                    !.stuck_timer = 0],
              path |-> "clear"]
        ELSE [car |-> self1, path |-> "changing"]

\* A completion that stores the lane number of the label, best_lane + 1,
\* as the lane.
lateral_lane_number(self, frame) ==
    IF self.changing_lane
    THEN LET progress == self.change_progress + PROGRESS_STEP
             start_x == LANE_CENTERS[self.lane]
             end_x == LANE_CENTERS[self.target_lane]
         IN  IF progress >= PROGRESS_DONE
             THEN [self EXCEPT !.lane = self.target_lane + 1,
                               !.x = LANE_CENTERS[self.target_lane],
                               !.changing_lane = FALSE,
                               !.change_progress = 0,
                               !.last_lane_change_time = frame]
             ELSE [self EXCEPT !.change_progress = progress,
                               !.x = start_x + Trunc((end_x - start_x) * progress, PROGRESS_DONE)
                                                 \div PROGRESS_DONE]
    ELSE [self EXCEPT !.x = self.x + Trunc(LANE_CENTERS[self.lane] - self.x, 10) \div 10]

(***************************************************************************)
(* Car.move, lines 113-129: lane changing and positioning.                 *)
(***************************************************************************)
lateral(self, frame) ==
    IF self.changing_lane
    THEN LET progress == self.change_progress + PROGRESS_STEP
             start_x == LANE_CENTERS[self.lane]
             end_x == LANE_CENTERS[self.target_lane]
         IN  IF progress >= PROGRESS_DONE
             THEN [self EXCEPT !.lane = self.target_lane,
                               !.x = LANE_CENTERS[self.target_lane],
                               !.changing_lane = FALSE,
                               !.change_progress = 0,
                               !.last_lane_change_time = frame]
             ELSE [self EXCEPT !.change_progress = progress,
                               !.x = start_x + Trunc((end_x - start_x) * progress, PROGRESS_DONE)
                                                 \div PROGRESS_DONE]
    ELSE [self EXCEPT !.x = self.x + Trunc(LANE_CENTERS[self.lane] - self.x, 10) \div 10]

(***************************************************************************)
(* Car.move, lines 104-111: an NPC car moves relative to the player and is *)
(* respawned when it leaves the screen; r holds the values drawn by        *)
(* random.randint and random.uniform.                                      *)
(***************************************************************************)
relative_motion(self, player_car, r) ==
    LET y == self.y + (player_car.speed - self.speed)
    IN  IF y > HEIGHT + CAR_HEIGHT * 2
        THEN [self EXCEPT !.y = -(CAR_HEIGHT * 5),
                          !.lane = r.lane,
                          !.x = LANE_CENTERS[r.lane],
                          !.speed = r.speed]
        ELSE [self EXCEPT !.y = y]

\* Whether move would respawn this NPC car on this frame.
respawns(self, player_car) ==
    /\ ~self.collided
    /\ ~self.is_player
    /\ self.y + (player_car.speed - self.speed) > HEIGHT + CAR_HEIGHT * 2

\* Car.move without the early return of a collided car.
move_without_collided_check(all, s, frame, player_car, r) ==
    IF all[s].is_player
    THEN lateral(autonomous_drive(all, s, frame).car, frame)
    ELSE lateral(relative_motion(all[s], player_car, r), frame)

(***************************************************************************)
(* Car.move                                                                *)
(***************************************************************************)
move(all, s, frame, player_car, r) ==
    IF all[s].collided
    THEN all[s]
    ELSE IF all[s].is_player
         THEN lateral(autonomous_drive(all, s, frame).car, frame)
         ELSE lateral(relative_motion(all[s], player_car, r), frame)

\* The path autonomous_drive took on this frame, "none" when it did not run.
drive_path(all, frame) ==
    IF all[1].collided THEN "none" ELSE autonomous_drive(all, 1, frame).path

(***************************************************************************)
(* pygame.Rect(x - CAR_WIDTH/2, y - CAR_HEIGHT/2, CAR_WIDTH, CAR_HEIGHT):  *)
(* the corner is converted to whole pixels.                                *)
(***************************************************************************)
Rect(car) ==
    [left |-> Trunc(car.x - CAR_WIDTH \div 2, PIXEL),
     top |-> Trunc(car.y - CAR_HEIGHT \div 2, PIXEL)]

\* pygame.Rect.colliderect: the interiors intersect.
colliderect(a, b) ==
    /\ a.left < b.left + CAR_WIDTH
    /\ b.left < a.left + CAR_WIDTH
    /\ a.top < b.top + CAR_HEIGHT
    /\ b.top < a.top + CAR_HEIGHT

\* A collision check that marks the player and forgets `car.collided = True`.
check_collision_player_only(all, s) ==
    LET hits == {i \in 1..Len(all) : i # s /\ colliderect(Rect(all[s]), Rect(all[i]))}
    IN  IF all[s].collided \/ hits = {}
        THEN all
        ELSE [all EXCEPT ![s].collided = TRUE, ![s].lane_decision = "CRASHED!"]

(***************************************************************************)
(* Car.update_sensors_and_check_collision: the loop stops at the first car *)
(* of the list whose rectangle collides with the rectangle of car s.       *)
(***************************************************************************)
update_sensors_and_check_collision(all, s) ==
    LET hits == {i \in 1..Len(all) : i # s /\ colliderect(Rect(all[s]), Rect(all[i]))}
    IN  IF all[s].collided \/ hits = {}
        THEN all
        ELSE LET c == CHOOSE i \in hits : \A j \in hits : i <= j
             IN  [all EXCEPT ![s].collided = TRUE,
                             ![s].lane_decision = "CRASHED!",
                             ![c].collided = TRUE]

(***************************************************************************)
(* reset_simulation.  The lane, y and speed of the NPC cars are random;    *)
(* the model draws the traffic from a few arrangements that randint(0, 2), *)
(* randint(-HEIGHT, 0) and uniform(3.0, 4.5) can produce.  Each is a       *)
(* sequence of <<lane, y, speed>>; NPC cars beyond its length start as     *)
(* Leader, a slow car far ahead in the right lane.                         *)
(***************************************************************************)
Leader == <<2, -70000, 300>>

Traffic ==
    { << <<1, -60000, 300>>, <<0, -64600, 300>>, <<2, -61000, 300>>,
         <<0, -5000, 350>>, <<0, -5000, 350>> >>,
      << <<1, -4000, 350>>, <<2, -28000, 300>>, <<2, -11000, 400>>,
         <<0, -5000, 350>>, <<0, -5000, 350>> >>,
      << <<0, -66000, 300>>, <<2, -45000, 300>>, <<1, -1000, 400>>,
         <<0, -5000, 350>>, <<0, -5000, 350>> >>,
      << <<2, -80000, 450>>, <<1, -80000, 450>>, <<0, 0, 300>>,
         <<0, -5000, 350>>, <<0, -5000, 350>> >> }

reset_simulation(w) ==
    LET npc(i) == IF i <= Len(w) THEN w[i] ELSE Leader
    IN  <<Car(LANE_CENTERS[1], HEIGHT - PLAYER_START_OFFSET, 1, PLAYER_SPEED_MIN, TRUE)>>
        \o [i \in 1..NumNpc |-> Car(LANE_CENTERS[npc(i)[1]], npc(i)[2], npc(i)[1], npc(i)[3], FALSE)]

\* The values random.randint(0, LANE_COUNT - 1) and random.uniform(NPC_SPEED_MIN,
\* NPC_SPEED_MAX) give to a respawned car: every lane, the two extreme speeds.
RespawnChoices == [lane : 0..(LANE_COUNT - 1), speed : {NPC_SPEED_MIN, NPC_SPEED_MAX}]

(***************************************************************************)
(* main, lines 310-311: `for car in cars: car.move(cars, frame_count,      *)
(* player_car)`.  The player is the first car of the list, so it moves     *)
(* first and the NPC cars then read the player's new speed; r gives the    *)
(* random values of the cars that respawn.                                 *)
(***************************************************************************)
moved_player(all, frame) == move(all, 1, frame, all[1], [lane |-> 0, speed |-> 0])

respawning(all, frame) ==
    {i \in 2..Len(all) : respawns(all[i], moved_player(all, frame))}

\* The loop with the NPC cars moved, at the player's old speed, before the
\* player decides.
move_all_npc_first(all, frame, r) ==
    LET npc_moved == [i \in 1..Len(all) |->
                        IF i = 1 THEN all[1]
                        ELSE move(all, i, frame, all[1],
                                  IF i \in DOMAIN r THEN r[i] ELSE [lane |-> 0, speed |-> 0])]
    IN  [npc_moved EXCEPT ![1] = move(npc_moved, 1, frame, all[1], [lane |-> 0, speed |-> 0])]

move_all(all, frame, r) ==
    LET player_car == moved_player(all, frame)
    IN  [i \in 1..Len(all) |->
            IF i = 1 THEN player_car
            ELSE move(all, i, frame, player_car,
                      IF i \in DOMAIN r THEN r[i] ELSE [lane |-> 0, speed |-> 0])]

\* The player is blocked on the positions its decision reads: a car ahead
\* in its lane closer than CHANGE_LANE_DISTANCE, and no lane change going on.
blocked_at_decision(all) ==
    LET front == get_car_in_front(all, 1, all[1].lane)
    IN  ~all[1].changing_lane /\ front.car # 0 /\ front.dist < CHANGE_LANE_DISTANCE

(***************************************************************************)
(* The state after main's first call of reset_simulation.                  *)
(***************************************************************************)
Init ==
    /\ \E w \in Traffic : cars = reset_simulation(w)
    /\ frame_count = 0
    /\ ev = "none"
    /\ blocked_run = 0

(***************************************************************************)
(* One iteration of the frame loop with a crashed player (lines 303-306).  *)
(***************************************************************************)
ResetTick ==
    /\ cars[1].collided
    /\ \E w \in Traffic : cars' = reset_simulation(w)
    /\ frame_count' = 0
    /\ ev' = "none"
    /\ blocked_run' = 0

(***************************************************************************)
(* One iteration of the frame loop otherwise (lines 298, 308-313).  ev is  *)
(* the path autonomous_drive took, blocked_run the number of consecutive   *)
(* frames, this one included, on which the player was blocked and did not  *)
(* start a lane change.                                                    *)
(***************************************************************************)
StepTick ==
    /\ ~cars[1].collided
    /\ frame_count < MaxFrame
    /\ frame_count' = frame_count + 1
    /\ \E r \in [respawning(cars, frame_count + 1) -> RespawnChoices] :
          cars' = update_sensors_and_check_collision(move_all(cars, frame_count + 1, r), 1)
    /\ ev' = drive_path(cars, frame_count + 1)
    /\ blocked_run' = IF blocked_at_decision(cars) /\ ev' # "initiate"
                      THEN blocked_run + 1
                      ELSE 0

Next == ResetTick \/ StepTick

Spec == Init /\ [][Next]_vars

(***************************************************************************)
(* What the decision of a frame reads: the cars as the previous frame left *)
(* them, the player with the speed lines 134-137 have just given it.       *)
(***************************************************************************)
decision_view(all) ==
    [all EXCEPT ![1].speed = speed_step(all[1].speed, all[1].target_speed)]

\* The frame loop runs the player's decision on this step.
Drives == ~cars[1].collided /\ frame_count' = frame_count + 1

(***************************************************************************)
(* C1  Safety gate.  On every frame on which the player starts a lane      *)
(* change (changing_lane goes from false to true), the target lane passed  *)
(* is_lane_safe on the cars the decision of that frame read, and it is a   *)
(* lane next to the player's lane.                                         *)
(***************************************************************************)
C1_SafetyGate ==
    [][(Drives /\ (ev' = "initiate" \/ (~cars[1].changing_lane /\ cars'[1].changing_lane)))
        => /\ ev' = "initiate"
           /\ ~cars[1].changing_lane
           /\ is_lane_safe(decision_view(cars), 1, cars'[1].target_lane)
           /\ Abs(cars'[1].target_lane - cars[1].lane) = 1]_vars

\* A lane change has just been started toward another lane.
C1_Witness ==
    /\ ev = "initiate"
    /\ cars[1].changing_lane
    /\ cars[1].target_lane # cars[1].lane
    /\ cars[1].lane_decision = changing_label(cars[1].target_lane)

(***************************************************************************)
(* C2  No oscillation.  From the frame that starts a lane change toward    *)
(* lane L, target_lane stays L on every frame until the change completes   *)
(* (lane becomes L) or is aborted by the re-check of the target lane; no   *)
(* lane is selected while changing_lane is true.                           *)
(***************************************************************************)
C2_NoOscillation ==
    [][(Drives /\ cars[1].changing_lane)
        => /\ cars'[1].target_lane = cars[1].target_lane
           /\ ev' \in {"changing", "abort"}
           /\ \/ cars'[1].changing_lane /\ ev' = "changing" /\ cars'[1].lane = cars[1].lane
              \/ ~cars'[1].changing_lane /\ ev' = "abort" /\ cars'[1].lane = cars[1].lane
              \/ ~cars'[1].changing_lane /\ ev' = "changing"
                    /\ cars'[1].lane = cars[1].target_lane]_vars

\* A lane change that has gone on for several frames toward the same lane.
C2_Witness ==
    /\ ev = "changing"
    /\ cars[1].changing_lane
    /\ cars[1].change_progress >= 3 * PROGRESS_STEP
    /\ blocked_at_decision([cars EXCEPT ![1].changing_lane = FALSE])

(***************************************************************************)
(* C3  Cooldown.  last_lane_change_time is the frame of the last completed *)
(* lane change (0 at the start of an episode); on every frame t that       *)
(* starts a lane change, t - last_lane_change_time >= 60; a player blocked *)
(* on a frame with t - last_lane_change_time < 60 brakes instead.          *)
(***************************************************************************)
C3_Cooldown ==
    [][Drives
        => /\ (ev' = "initiate")
                => frame_count' - cars[1].last_lane_change_time >= min_lane_change_interval
           /\ (blocked_at_decision(cars)
                /\ frame_count' - cars[1].last_lane_change_time < min_lane_change_interval)
                => (ev' = "brake" /\ ~cars'[1].changing_lane)
           /\ cars'[1].last_lane_change_time =
                IF cars'[1].lane # cars[1].lane
                THEN frame_count'
                ELSE cars[1].last_lane_change_time]_vars

\* The player brakes behind a car less than 60 frames after a lane change.
C3_Witness ==
    /\ ev = "brake"
    /\ cars[1].last_lane_change_time > 0
    /\ frame_count - cars[1].last_lane_change_time < min_lane_change_interval

(***************************************************************************)
(* Rectangles of CAR_WIDTH x CAR_HEIGHT centred on the positions of two    *)
(* cars overlap.                                                           *)
(***************************************************************************)
rectangles_overlap(a, b) ==
    Abs(a.x - b.x) < CAR_WIDTH /\ Abs(a.y - b.y) < CAR_HEIGHT

\* The cars whose pygame rectangle collides with the player's.
colliding(all) ==
    {i \in 2..Len(all) : colliderect(Rect(all[1]), Rect(all[i]))}

\* No step of an episode clears a collided flag; the next episode starts
\* with new cars.
C4_FlagsStay ==
    [][~ResetTick => \A i \in 1..Len(cars) : cars[i].collided => cars'[i].collided]_vars

(***************************************************************************)
(* C4  Collision property as stated: at the end of every frame, every car  *)
(* whose rectangle overlaps the player's rectangle is marked collided,     *)
(* and so is the player; a collided flag stays true for the episode.       *)
(***************************************************************************)
C4_AllOverlapping ==
    /\ [](\A i \in 2..Len(cars) :
            rectangles_overlap(cars[1], cars[i]) => (cars[1].collided /\ cars[i].collided))
    /\ C4_FlagsStay

(***************************************************************************)
(* C4 as amended: at the end of every frame on which the rectangle of some *)
(* car collides with the player's (pygame rectangles, whole pixels), the   *)
(* player and the first such car of the list are marked collided, and no   *)
(* other car is; a collided flag stays true for the episode.               *)
(***************************************************************************)
C4_FirstOverlapping ==
    /\ [](/\ colliding(cars) # {}
             => /\ cars[1].collided
                /\ cars[1].lane_decision = "CRASHED!"
                /\ \E c \in colliding(cars) :
                      /\ \A j \in colliding(cars) : c <= j
                      /\ \A i \in 2..Len(cars) : cars[i].collided <=> i = c
          /\ colliding(cars) = {} => \A i \in 1..Len(cars) : ~cars[i].collided)
    /\ C4_FlagsStay

\* Two cars collide with the player on the same frame.
C4_Witness ==
    /\ cars[1].collided
    /\ Cardinality(colliding(cars)) >= 2

(***************************************************************************)
(* C5  Abort.  On every frame on which the player is changing lane and its *)
(* target lane is no longer safe, the frame ends with changing_lane false, *)
(* change_progress 0 and stuck_timer 0, and no lane change is started on   *)
(* that frame.                                                             *)
(***************************************************************************)
C5_Abort ==
    [][(/\ Drives
        /\ cars[1].changing_lane
        /\ ~is_lane_safe(decision_view(cars), 1, cars[1].target_lane))
        => /\ ev' = "abort"
           /\ ~cars'[1].changing_lane
           /\ cars'[1].change_progress = 0
           /\ cars'[1].stuck_timer = 0]_vars

(***************************************************************************)
(* C6  change_progress invariant.  At the end of every frame                *)
(* change_progress is in [0, 1] when changing_lane is true and exactly 0   *)
(* when it is false; while changing_lane stays true it strictly increases. *)
(***************************************************************************)
C6_ChangeProgress ==
    /\ [](IF cars[1].changing_lane
          THEN 0 <= cars[1].change_progress /\ cars[1].change_progress <= PROGRESS_DONE
          ELSE cars[1].change_progress = 0)
    /\ [][(Drives /\ cars[1].changing_lane /\ cars'[1].changing_lane)
           => cars'[1].change_progress > cars[1].change_progress]_vars

\* The lanes next to a lane.
adjacent_lanes(lane) ==
    {l \in 0..(LANE_COUNT - 1) : Abs(l - lane) = 1}

\* The player is blocked and every lane next to its own passes is_lane_safe,
\* on the cars the decision of this frame reads.
scenario_a(all) ==
    /\ blocked_at_decision(all)
    /\ \A l \in adjacent_lanes(all[1].lane) : is_lane_safe(decision_view(all), 1, l)

(***************************************************************************)
(* C7  Scenario A as stated: on every frame on which the player is not     *)
(* changing lane, the nearest car ahead in its lane is closer than 150 and *)
(* the adjacent lanes pass is_lane_safe, the decision of that frame starts *)
(* a lane change toward one of them, whatever the frame number.            *)
(***************************************************************************)
C7_ScenarioA ==
    [][(Drives /\ scenario_a(cars))
        => /\ ev' = "initiate"
           /\ cars'[1].target_lane \in adjacent_lanes(cars[1].lane)]_vars

(***************************************************************************)
(* C7 as amended: the same, on the frames t with                           *)
(* t - last_lane_change_time >= 60; on the other frames the player brakes. *)
(***************************************************************************)
C7_ScenarioAOffCooldown ==
    [][(Drives /\ scenario_a(cars))
        => IF frame_count' - cars[1].last_lane_change_time >= min_lane_change_interval
           THEN /\ ev' = "initiate"
                /\ cars'[1].target_lane \in adjacent_lanes(cars[1].lane)
                /\ cars'[1].target_speed = PLAYER_SPEED_MAX
           ELSE ev' = "brake" /\ ~cars'[1].changing_lane]_vars

\* A lane change started from the middle lane with both other lanes safe,
\* after an earlier lane change.
C7_Witness ==
    /\ ev = "initiate"
    /\ cars[1].changing_lane
    /\ cars[1].last_lane_change_time > 0
    /\ frame_count - cars[1].last_lane_change_time >= min_lane_change_interval
    /\ \A l \in adjacent_lanes(cars[1].lane) : is_lane_safe(cars, 1, l)

(***************************************************************************)
(* C8  Braking escalation.  Over consecutive frames on which the player is *)
(* blocked and starts no lane change (no safe adjacent lane, or cooldown), *)
(* stuck_timer counts the frames; on the 1st to the 300th the decision is  *)
(* "Slowing: No safe lane" with target speed = speed of the nearest car    *)
(* ahead in its lane - 0.1, from the 301st on "Stuck! Braking hard." with  *)
(* that speed - 1.0.                                                       *)
(***************************************************************************)
C8_BrakingEscalation ==
    [][(Drives /\ blocked_at_decision(cars) /\ ev' # "initiate")
        => LET view == decision_view(cars)
               front == get_car_in_front(cars, 1, cars[1].lane)
               hard == blocked_run' > STUCK_FRAMES
           IN  /\ ev' = "brake"
               /\ is_on_cooldown(cars[1], frame_count') \/ safe_lanes(view, 1) = <<>>
               /\ blocked_run' = blocked_run + 1
               /\ cars'[1].stuck_timer = blocked_run'
               /\ cars'[1].target_speed =
                     cars[front.car].speed - (IF hard THEN HARD_BRAKE ELSE GENTLE_BRAKE)
               /\ \/ cars'[1].collided
                  \/ cars'[1].lane_decision =
                        (IF hard THEN "Stuck! Braking hard." ELSE "Slowing: No safe lane")]_vars

\* The 301st consecutive blocked frame: the first frame of hard braking.
C8_Witness ==
    /\ ev = "brake"
    /\ blocked_run = STUCK_FRAMES + 1
    /\ cars[1].stuck_timer = STUCK_FRAMES + 1
    /\ cars[1].lane_decision = "Stuck! Braking hard."

FrozenTick ==
    /\ cars[1].collided
    /\ frame_count < MaxFrame
    /\ frame_count' = frame_count + 1
    /\ \E r \in [respawning(cars, frame_count + 1) -> RespawnChoices] :
          cars' = update_sensors_and_check_collision(move_all(cars, frame_count + 1, r), 1)
    /\ ev' = drive_path(cars, frame_count + 1)
    /\ blocked_run' = 0

NextNoReset == StepTick \/ FrozenTick

SpecNoReset == Init /\ [][NextNoReset]_vars

(***************************************************************************)
(* C10  Frozen after collision.  A frame leaves x, y, lane, speed,         *)
(* target_speed, changing_lane, change_progress and stuck_timer of every   *)
(* car that was collided at its start unchanged; for the player neither    *)
(* the decision nor the speed controller runs.                             *)
(***************************************************************************)
C10_Frozen ==
    [][\A i \in 1..Len(cars) :
          cars[i].collided
            => /\ cars'[i] = cars[i]
               /\ (i = 1) => ev' = "none"]_vars

\* A frame has run on a crashed player and a crashed NPC car.
C10_Witness ==
    /\ cars[1].collided
    /\ \E i \in 2..Len(cars) : cars[i].collided
    /\ ev = "none"
    /\ frame_count > 0

(***************************************************************************)
(* C11  Lane bounds.  In every reachable state every car, player or NPC,   *)
(* has 0 <= lane < LANE_COUNT, also after a respawn, a completed lane      *)
(* change and an abort, and the player has 0 <= target_lane < LANE_COUNT.  *)
(***************************************************************************)
C11_LaneBounds ==
    /\ \A i \in 1..Len(cars) : 0 <= cars[i].lane /\ cars[i].lane < LANE_COUNT
    /\ 0 <= cars[1].target_lane /\ cars[1].target_lane < LANE_COUNT

\* The player has just completed a lane change into the leftmost or the
\* rightmost lane.
C11_Witness ==
    /\ frame_count > 0
    /\ cars[1].last_lane_change_time = frame_count
    /\ ~cars[1].changing_lane
    /\ cars[1].lane \in {0, LANE_COUNT - 1}
    /\ cars[1].lane = cars[1].target_lane

(***************************************************************************)
(* is_lane_safe called on its own.  A world is the player, at the place    *)
(* and speed reset_simulation gives it, and SafeNpc NPC cars; each NPC car *)
(* is in any lane, at one of Offsets from the player along the road, and   *)
(* slower or faster than the player.  The offsets lie on both sides of the *)
(* three thresholds of is_lane_safe: CAR_HEIGHT * 2.5 (125 pixels),        *)
(* CHANGE_LANE_DISTANCE (150) and REAR_THREAT_DISTANCE (100).              *)
(***************************************************************************)
\* Number of NPC cars in such a world.
SafeNpc == 2

Offsets == {-20000, -15000, -14999, -12500, 0, 9999, 12499, 12500}

NpcPlacements == [lane : 0..(LANE_COUNT - 1), dy : Offsets, speed : {NPC_SPEED_MIN, NPC_SPEED_MAX}]

world(placed) ==
    <<Car(LANE_CENTERS[1], HEIGHT - PLAYER_START_OFFSET, 1, PLAYER_SPEED_MIN, TRUE)>>
        \o [i \in 1..Len(placed) |->
               Car(LANE_CENTERS[placed[i].lane], HEIGHT - PLAYER_START_OFFSET + placed[i].dy,
                   placed[i].lane, placed[i].speed, FALSE)]

InitSafe ==
    /\ \E placed \in [1..SafeNpc -> NpcPlacements] : cars = world(placed)
    /\ frame_count = 0
    /\ ev = "none"
    /\ blocked_run = 0

\* One call self.is_lane_safe(cars, lane) by the player; ev keeps the lane
\* and the value returned, frame_count counts the calls.
SafetyCheck ==
    /\ frame_count = 0
    /\ frame_count' = 1
    /\ \E lane \in 0..(LANE_COUNT - 1) :
          ev' = [lane |-> lane, safe |-> is_lane_safe(cars, 1, lane)]
    /\ UNCHANGED <<cars, blocked_run>>

SpecSafe == InitSafe /\ [][SafetyCheck]_vars

\* The three conditions of a safe lane, for car s and a candidate lane.
lane_safe_contract(all, s, lane) ==
    LET in_lane == {i \in 1..Len(all) : i # s /\ ~all[i].is_player /\ all[i].lane = lane}
        ahead == {i \in in_lane : all[i].y < all[s].y}
        behind == {i \in in_lane : all[i].y > all[s].y}
        nearest_ahead == {i \in ahead : \A j \in ahead : all[j].y <= all[i].y}
    IN  /\ \A i \in in_lane : 2 * Abs(all[i].y - all[s].y) >= 5 * CAR_HEIGHT
        /\ \A i \in nearest_ahead : all[s].y - all[i].y >= CHANGE_LANE_DISTANCE
        /\ \A i \in behind : all[i].y - all[s].y < REAR_THREAT_DISTANCE
                                => all[i].speed <= all[s].speed

\* The world with the NPC cars of `changing` in the middle of a lane change
\* toward the lane `to`.
with_changing(all, changing, to) ==
    [i \in 1..Len(all) |->
        IF i \in changing
        THEN [all[i] EXCEPT !.changing_lane = TRUE, !.target_lane = to,
                            !.change_progress = 10 * PROGRESS_STEP]
        ELSE all[i]]

(***************************************************************************)
(* C12  Contract of is_lane_safe.  For every world and candidate lane the  *)
(* call returns true iff (1) no NPC car of the lane is closer than         *)
(* 2.5 x CAR_HEIGHT along the road, (2) the nearest car ahead in the lane, *)
(* if any, is at least 150 away, (3) no car behind in the lane closer than *)
(* 100 is faster than the caller; and the value is the same whichever NPC  *)
(* cars are changing lane.                                                 *)
(***************************************************************************)
C12_LaneSafeContract ==
    frame_count = 1
        => /\ ev.safe <=> lane_safe_contract(cars, 1, ev.lane)
           /\ \A changing \in SUBSET (2..Len(cars)) : \A to \in 0..(LANE_COUNT - 1) :
                 is_lane_safe(with_changing(cars, changing, to), 1, ev.lane) <=> ev.safe

\* A lane found safe with its nearest car ahead exactly 150 away and a
\* faster car behind, outside the blind spot.
C12_Witness ==
    /\ frame_count = 1
    /\ ev.safe
    /\ \E i, j \in 2..Len(cars) :
          /\ cars[i].lane = ev.lane
          /\ cars[1].y - cars[i].y = CHANGE_LANE_DISTANCE
          /\ cars[j].lane = ev.lane
          /\ cars[j].y > cars[1].y
          /\ cars[j].speed > cars[1].speed

\* is_lane_safe reduced to its first two checks: the blind spot and the
\* clearance ahead.
positions_safe(all, s, lane) ==
    LET in_lane == {i \in 1..Len(all) : i # s /\ ~all[i].is_player /\ all[i].lane = lane}
    IN  /\ ~\E i \in in_lane : 2 * Abs(all[s].y - all[i].y) < CAR_HEIGHT * 5
        /\ ~\E i \in in_lane : all[i].y < all[s].y
                                 /\ all[s].y - all[i].y < CHANGE_LANE_DISTANCE

\* The world with the speeds of the cars replaced by those of sp.
with_speeds(all, sp) ==
    [i \in 1..Len(all) |-> [all[i] EXCEPT !.speed = sp[i]]]

\* The cars behind car s in `lane`, closer than REAR_THREAT_DISTANCE and
\* faster than it: those the third check of is_lane_safe looks for.
rear_threats(all, s, lane) ==
    {i \in 1..Len(all) : /\ i # s
                         /\ ~all[i].is_player
                         /\ all[i].lane = lane
                         /\ all[i].y > all[s].y
                         /\ all[i].y - all[s].y < REAR_THREAT_DISTANCE
                         /\ all[i].speed > all[s].speed}

(***************************************************************************)
(* C18  The rear-threat check is never decisive.  For every world and      *)
(* candidate lane is_lane_safe returns what the blind-spot check           *)
(* (|dy| < 125) and the clearance check (nearest ahead < 150) alone        *)
(* return: a car behind within REAR_THREAT_DISTANCE is inside the blind    *)
(* spot.  So the value does not depend on the speed of any car.            *)
(***************************************************************************)
C18_RearThreatNeverDecisive ==
    frame_count = 1
        => /\ ev.safe <=> positions_safe(cars, 1, ev.lane)
           /\ \A i \in rear_threats(cars, 1, ev.lane) :
                 2 * Abs(cars[1].y - cars[i].y) < CAR_HEIGHT * 5
           /\ \A sp \in [1..Len(cars) -> {NPC_SPEED_MIN, PLAYER_SPEED_MAX}] :
                 is_lane_safe(with_speeds(cars, sp), 1, ev.lane) <=> ev.safe

\* A call on a lane whose cars are all behind the player, one of them
\* faster and within REAR_THREAT_DISTANCE: the lane is refused.
C18_Witness ==
    /\ frame_count = 1
    /\ ~ev.safe
    /\ rear_threats(cars, 1, ev.lane) # {}
    /\ \A i \in 2..Len(cars) : cars[i].lane = ev.lane => cars[i].y > cars[1].y

(***************************************************************************)
(* The speed controller called on its own: the player with one NPC car     *)
(* ahead in its lane, close enough to block it or not.  The player has any *)
(* speed of Speeds and any target speed of Targets; when blocked it may    *)
(* have been so for STUCK_FRAMES frames.  Speeds and Targets hold the      *)
(* speed and target speed of the start of an episode, and the calls lead   *)
(* from them to no other speed or target speed, so they hold every speed   *)
(* and target speed of an episode whose NPC cars have the speeds of        *)
(* NpcSpeeds.  A step is one call of player.move, which runs lines 134-137 *)
(* first; the NPC car stays where it is.                                   *)
(***************************************************************************)
\* Number of calls made in a row.
ControllerCalls == 3

\* NPC_SPEED_MIN to NPC_SPEED_MAX in steps of 0.5.
NpcSpeeds == {NPC_SPEED_MIN + 50 * k : k \in 0..((NPC_SPEED_MAX - NPC_SPEED_MIN) \div 50)}

\* Target speeds the decision can set: the speed of an NPC car minus 0.1 or
\* minus 1.0, and PLAYER_SPEED_MAX.
Targets ==
    {v - GENTLE_BRAKE : v \in NpcSpeeds} \cup {v - HARD_BRAKE : v \in NpcSpeeds}
        \cup {PLAYER_SPEED_MAX}

\* From the lowest target speed less the tolerance of the controller up to
\* PLAYER_SPEED_MAX.
Speeds == (NPC_SPEED_MIN - HARD_BRAKE - SPEED_EPSILON)..PLAYER_SPEED_MAX

InitController ==
    /\ \E v \in Speeds : \E t \in Targets :
       \E dy \in {-30000, -10000} : \E npc_speed \in NpcSpeeds :
       \E stuck \in {0} \cup (IF dy = -10000 THEN {STUCK_FRAMES} ELSE {}) :
          LET w == world(<<[lane |-> 1, dy |-> dy, speed |-> npc_speed]>>)
          IN  cars = [w EXCEPT ![1].speed = v, ![1].target_speed = t,
                               ![1].stuck_timer = stuck]
    /\ frame_count = 0
    /\ ev = "none"
    /\ blocked_run = 0

ControllerCall ==
    /\ frame_count < ControllerCalls
    /\ frame_count' = frame_count + 1
    /\ cars' = [cars EXCEPT ![1] = move(cars, 1, frame_count + 1, cars[1],
                                        [lane |-> 0, speed |-> 0])]
    /\ ev' = drive_path(cars, frame_count + 1)
    /\ UNCHANGED blocked_run

SpecController == InitController /\ [][ControllerCall]_vars

(***************************************************************************)
(* C13  Contract of the speed controller, in hundredths.  For every speed  *)
(* and target the next speed is the target if |speed - target| <= 0.05,    *)
(* else speed + 0.02 if speed < target, else speed - 0.1; nothing else of  *)
(* the state enters it.                                                    *)
(***************************************************************************)
C13_SpeedController ==
    [][LET speed == cars[1].speed
           target == cars[1].target_speed
       IN  cars'[1].speed = IF Abs(speed - target) <= 5 THEN target
                            ELSE IF speed < target THEN speed + 2
                            ELSE speed - 10]_vars

\* After two calls behind the same NPC car the player is 0.01 below the
\* target speed both calls set: the second call took 0.1 off a speed that
\* was 0.09 above the target.
C13_Witness ==
    /\ frame_count = 2
    /\ ev = "brake"
    /\ cars[1].target_speed = cars[2].speed - GENTLE_BRAKE
    /\ cars[1].speed = cars[1].target_speed - 1

(***************************************************************************)
(* Frames of the loop run from a scene late in an episode instead of from  *)
(* reset_simulation.  In a scene the player cruises at PLAYER_SPEED_MAX in *)
(* any lane, in its lane or half way through a lane change toward a lane   *)
(* next to it, with no lane change completed so far; SceneNpc slow NPC     *)
(* cars are ahead of it, each in any lane and at one of SceneOffsets: well *)
(* clear, exactly CHANGE_LANE_DISTANCE away, or half a pixel closer.       *)
(***************************************************************************)
\* Number of NPC cars of a scene.
SceneNpc == 3

\* Number of frames run from a scene.
SceneFrames == 2

SceneOffsets == {-20000, -CHANGE_LANE_DISTANCE, -(CHANGE_LANE_DISTANCE - 50)}

ScenePlacements == [lane : 0..(LANE_COUNT - 1), dy : SceneOffsets, speed : {NPC_SPEED_MIN}]

\* The player of a scene: toward = lane when it is not changing lane.
scene_player(lane, toward) ==
    [Car(LANE_CENTERS[lane], HEIGHT - PLAYER_START_OFFSET, lane, PLAYER_SPEED_MAX, TRUE)
        EXCEPT !.changing_lane = (toward # lane),
               !.target_lane = toward,
               !.change_progress = IF toward # lane THEN 10 * PROGRESS_STEP ELSE 0,
               !.x = (LANE_CENTERS[lane] + LANE_CENTERS[toward]) \div 2,
               !.lane_decision = IF toward # lane THEN changing_label(toward)
                                 ELSE "Road clear"]

InitScene ==
    /\ \E lane \in 0..(LANE_COUNT - 1) :
       \E toward \in {lane} \cup {l \in 0..(LANE_COUNT - 1) : Abs(l - lane) = 1} :
       \E placed \in [1..SceneNpc -> ScenePlacements] :
          cars = [world(placed) EXCEPT ![1] = scene_player(lane, toward)]
    /\ frame_count = MaxFrame - SceneFrames
    /\ ev = "none"
    /\ blocked_run = 0

SpecScene == InitScene /\ [][StepTick]_vars

\* The lane the selection rule names: among the lanes next to the player's
\* that pass is_lane_safe, the one with the most room ahead, the lower
\* index on a tie.  Only used when there is such a lane.
selected_lane(all) ==
    LET room(l) == get_car_in_front(all, 1, l).dist
        candidates == {l \in adjacent_lanes(all[1].lane) : is_lane_safe(all, 1, l)}
    IN  CHOOSE l \in candidates :
           \A m \in candidates : room(m) < room(l) \/ (room(m) = room(l) /\ l <= m)

(***************************************************************************)
(* C14  Lane selection and tie-break.  Whenever the player starts a lane   *)
(* change, target_lane is, among the lanes next to its lane that pass      *)
(* is_lane_safe, one with the largest distance to the nearest car ahead    *)
(* (infinite for an empty lane), the lower lane index on an exact tie; the *)
(* same frame sets target_speed to PLAYER_SPEED_MAX and stuck_timer to 0.  *)
(***************************************************************************)
C14_LaneSelection ==
    [][(Drives /\ ev' = "initiate")
        => /\ cars'[1].target_lane = selected_lane(decision_view(cars))
           /\ cars'[1].changing_lane
           /\ cars'[1].target_speed = PLAYER_SPEED_MAX
           /\ cars'[1].stuck_timer = 0]_vars

\* A lane change started from the middle lane toward lane 0, with the
\* nearest cars ahead in lanes 0 and 2 equally far and both lanes safe.
C14_Witness ==
    /\ ev = "initiate"
    /\ cars[1].lane = 1
    /\ cars[1].target_lane = 0
    /\ is_lane_safe(cars, 1, 0) /\ is_lane_safe(cars, 1, 2)
    /\ get_car_in_front(cars, 1, 0).car # 0
    /\ get_car_in_front(cars, 1, 0).dist = get_car_in_front(cars, 1, 2).dist

(***************************************************************************)
(* C19  Frame of the abort.  Among the fields of the decision an abort     *)
(* changes only changing_lane, stuck_timer and lane_decision: lane (still  *)
(* the lane the change started from), target_lane, target_speed and        *)
(* last_lane_change_time are left as they were, and so is change_progress. *)
(* So an abort starts no cooldown: on the frame after it the player starts *)
(* a lane change whenever it is blocked, off the cooldown of its last      *)
(* completed lane change, and a lane next to it is safe.                   *)
(***************************************************************************)
C19_AbortFrame ==
    [][Drives
        => /\ (ev' = "abort")
                => /\ cars[1].changing_lane /\ ~cars'[1].changing_lane
                   /\ cars'[1].stuck_timer = 0
                   /\ cars'[1].lane_decision \in {"Target Unsafe! Aborting.", "CRASHED!"}
                   /\ cars'[1].lane = cars[1].lane
                   /\ cars'[1].target_lane = cars[1].target_lane
                   /\ cars'[1].target_speed = cars[1].target_speed
                   /\ cars'[1].last_lane_change_time = cars[1].last_lane_change_time
                   /\ cars'[1].change_progress = cars[1].change_progress
           /\ (/\ ev = "abort"
               /\ blocked_at_decision(cars)
               /\ frame_count' - cars[1].last_lane_change_time >= min_lane_change_interval
               /\ \E l \in adjacent_lanes(cars[1].lane) : is_lane_safe(decision_view(cars), 1, l))
                => ev' = "initiate"]_vars

\* A lane change started on the frame after an abort: the scene was half
\* way through a lane change, the first frame aborted it and left
\* change_progress, the second frame started the new one and advanced it.
C19_Witness ==
    /\ ev = "initiate"
    /\ frame_count = MaxFrame - SceneFrames + 2
    /\ cars[1].changing_lane
    /\ cars[1].change_progress = 11 * PROGRESS_STEP
    /\ cars[1].last_lane_change_time = 0

(***************************************************************************)
(* C15  Duration and completion of a lane change.  Every lane change that  *)
(* is not aborted completes on exactly the 20th frame, the frame that      *)
(* starts it being the first, whatever happened earlier in the episode:    *)
(* the frame that starts it leaves change_progress at 0.05, every later    *)
(* frame of it adds 0.05, and the frame that reaches 1.0 makes lane the    *)
(* target lane, x the centre of that lane, changing_lane false,            *)
(* change_progress 0 and last_lane_change_time the frame number.           *)
(***************************************************************************)
C15_Duration ==
    [][Drives
        => /\ (ev' = "initiate")
                => cars'[1].changing_lane /\ cars'[1].change_progress = PROGRESS_STEP
           /\ (cars[1].changing_lane /\ ev' = "changing")
                => IF cars[1].change_progress = 19 * PROGRESS_STEP
                   THEN /\ cars'[1].lane = cars[1].target_lane
                        /\ cars'[1].x = LANE_CENTERS[cars[1].target_lane]
                        /\ ~cars'[1].changing_lane
                        /\ cars'[1].change_progress = 0
                        /\ cars'[1].last_lane_change_time = frame_count'
                   ELSE /\ cars'[1].changing_lane
                        /\ cars'[1].lane = cars[1].lane
                        /\ cars'[1].change_progress = cars[1].change_progress + PROGRESS_STEP]_vars

(***************************************************************************)
(* C16  Reset of stuck_timer.  At the end of every frame stuck_timer is 0  *)
(* if on that frame the player was not blocked (no car ahead in its lane   *)
(* closer than 150, or a lane change going on), or started a lane change,  *)
(* or aborted one; it is greater than 0 only if the player was blocked and *)
(* braked on that frame, and it is then one more than on the frame before. *)
(* Blocked is judged on the cars the decision of the frame reads.          *)
(***************************************************************************)
C16_StuckTimer ==
    [][Drives
        => /\ (~blocked_at_decision(cars) \/ ev' \in {"initiate", "abort"})
                => cars'[1].stuck_timer = 0
           /\ (cars'[1].stuck_timer > 0)
                => /\ blocked_at_decision(cars)
                   /\ ev' = "brake"
                   /\ cars'[1].stuck_timer = cars[1].stuck_timer + 1]_vars

\* The player, slowed below every NPC car by hard braking, has just started
\* a lane change and stuck_timer is back at 0.
C16_Witness ==
    /\ ev = "initiate"
    /\ cars[1].stuck_timer = 0
    /\ cars[1].speed < NPC_SPEED_MIN
    /\ blocked_run = 0

(***************************************************************************)
(* C17  Bounds of the player's speed, in hundredths.  From the speed 4.0   *)
(* and target 5.0 of the start, with NPC speeds in [3.0, 4.5], the speed   *)
(* of the player is never below 0 and never above PLAYER_SPEED_MAX, also   *)
(* under hard braking (target = speed of the car ahead - 1.0) and when a   *)
(* step of 0.1 takes the speed below the target: the speed stays in        *)
(* Speeds, whose lowest value is 1.95, and the target speed in Targets.    *)
(***************************************************************************)
C17_SpeedBounds ==
    /\ 0 <= cars[1].speed
    /\ cars[1].speed <= PLAYER_SPEED_MAX
    /\ cars[1].speed \in Speeds
    /\ cars[1].target_speed \in Targets

\* The player under hard braking behind the slowest NPC car, a step of 0.1
\* having taken its speed below the target speed of 2.0.
C17_Witness ==
    /\ frame_count >= 1
    /\ cars[1].lane_decision = "Stuck! Braking hard."
    /\ cars[2].speed = NPC_SPEED_MIN
    /\ cars[1].target_speed = NPC_SPEED_MIN - HARD_BRAKE
    /\ cars[1].speed < cars[1].target_speed

(***************************************************************************)
(* Frames of the loop run from a scene in which the player is behind a car *)
(* of its lane, closer than CHANGE_LANE_DISTANCE.  The car ahead is slow   *)
(* or fast, and just inside the distance, 100 pixels away, or one pixel    *)
(* from a collision.  The lanes next to the player's are closed by cars    *)
(* abreast of the car ahead, or open with their cars far ahead.  A fourth  *)
(* NPC car follows the player in its lane: fast and close, or slow and far *)
(* behind.  The player arrives at PLAYER_SPEED_MAX, or already follows the *)
(* car ahead at its speed less 0.1.  An NPC car keeps its lane and speed   *)
(* until the player leaves it far enough behind for a respawn.             *)
(***************************************************************************)
\* Number of frames run from such a scene.
FollowFrames == 600

FollowGaps == {CHANGE_LANE_DISTANCE - PIXEL, 10000, CAR_HEIGHT + PIXEL}

follow_scene(gap, v, closed, tailgate, arriving) ==
    LET side == IF closed THEN -gap ELSE -30000
        w == world(<<[lane |-> 1, dy |-> -gap, speed |-> v],
                     [lane |-> 0, dy |-> side, speed |-> v],
                     [lane |-> 2, dy |-> side, speed |-> v],
                     IF tailgate THEN [lane |-> 1, dy |-> 6000, speed |-> NPC_SPEED_MAX]
                     ELSE [lane |-> 1, dy |-> 15000, speed |-> NPC_SPEED_MIN]>>)
    IN  IF arriving
        THEN [w EXCEPT ![1].speed = PLAYER_SPEED_MAX,
                       ![1].lane_decision = "Road clear"]
        ELSE [w EXCEPT ![1].speed = v - GENTLE_BRAKE,
                       ![1].target_speed = v - GENTLE_BRAKE,
                       ![1].stuck_timer = 1,
                       ![1].lane_decision = "Slowing: No safe lane"]

InitFollow ==
    /\ \E gap \in FollowGaps : \E v \in {NPC_SPEED_MIN, NPC_SPEED_MAX} :
       \E closed, tailgate, arriving \in BOOLEAN :
          cars = follow_scene(gap, v, closed, tailgate, arriving)
    /\ frame_count = MaxFrame - FollowFrames
    /\ ev = "none"
    /\ blocked_run = 0

\* The frame loop goes on to its next frame: `while running`, line 297,
\* and frame_count += 1, line 313.
FrameRuns ==
    /\ ~cars[1].collided
    /\ frame_count < MaxFrame
    /\ frame_count' = frame_count + 1

\* The loop never stops of its own: a frame that can run does run.
SpecFollow == InitFollow /\ [][StepTick]_vars /\ WF_frame_count(FrameRuns)

\* More frames than a car, from one pixel short of a collision, needs to be
\* 150 pixels ahead again: 300 frames at 0.1 pixel per frame, then 1 pixel
\* per frame.
ReopenFrames == 400

(***************************************************************************)
(* C20  Blocked is not permanent.  From every frame on which the player    *)
(* was blocked and braked (a car ahead in its lane closer than 150, no     *)
(* lane change going on), the player comes to a frame on which the road is *)
(* clear, or it starts a lane change, or it has collided: braking to the   *)
(* speed of the car ahead less 0.1, less 1.0 once stuck, reopens the gap.  *)
(* Stated for the frames that leave the episode ReopenFrames frames to     *)
(* run.                                                                    *)
(***************************************************************************)
C20_BlockedNotPermanent ==
    (ev = "brake" /\ frame_count <= MaxFrame - ReopenFrames)
        ~> (ev \in {"clear", "initiate"} \/ cars[1].collided)

\* The road is clear again after hard braking: the player is still slower
\* than the gentle braking behind the slowest NPC car would make it.
C20_Witness ==
    /\ ev = "clear"
    /\ cars[1].stuck_timer = 0
    /\ cars[1].speed < NPC_SPEED_MIN - GENTLE_BRAKE
    /\ get_car_in_front(cars, 1, cars[1].lane).car # 0
    /\ get_car_in_front(cars, 1, cars[1].lane).dist >= CHANGE_LANE_DISTANCE

====
